---- MODULE Spec2Model ----
(***************************************************************************)
(* Model of final_project.py, the pub explorer: the filter engine          *)
(* (apply_filters), the aggregations behind the two bar charts             *)
(* (display_bar_chart, display_top_cities), the listing sorted by name     *)
(* length (display_sorted_pubs) and the saved-pubs list kept in the        *)
(* session state by main.                                                  *)
(*                                                                         *)
(* A DataFrame is the sequence of its rows; a row is a record of the       *)
(* columns the code reads (name, postcode, local_authority).  A text cell  *)
(* that is compared only for equality is a string; a name, which the code  *)
(* trims, searches and measures, is a sequence of one-character strings.   *)
(* A missing cell is NaN.                                                  *)
(***************************************************************************)
EXTENDS Integers, Sequences, FiniteSets, TLC

VARIABLES
    data,           \* the Record Store: the frame load_data returns
    authorities,    \* the multiselect's value (only membership is read)
    name_query,     \* the text input's value
    postal_code,    \* the postal-code selectbox's value
    filtered_data,  \* the frame apply_filters returned
    chart_data,     \* display_bar_chart's (authority, count) rows
    top_cities,     \* display_top_cities' (authority, count) rows
    n,              \* the n handed to nlargest
    sorted_data,    \* the frame display_sorted_pubs shows
    error,          \* the exception that ended the last operation, or NoError
    pc,             \* the operation that ran last
    page,           \* the navigation radio's value
    pub_name,       \* the "Select a Pub to Save" selectbox's value
    session_state,  \* st.session_state: holds saved_pubs once it was created
    save_log        \* history: the candidate of every "Save Pub" press so far

vars == <<data, authorities, name_query, postal_code, filtered_data, chart_data,
          top_cities, n, sorted_data, error, pc, page, pub_name, session_state,
          save_log>>

----------------------------------------------------------------------------
(* Bounds of the model. *)

\* longest frame handed to an operation
MaxRows == 3
\* longest name query typed
MaxQueryLen == 2
\* most "Save Pub" presses in a session
MaxSaves == 3

(* Program constants. *)

\* nlargest(10)
TopN == 10

----------------------------------------------------------------------------
(* Cells and rows. *)

\* a missing cell
NaN == "NaN"
\* a missing name: no sequence of characters
NaNName == <<NaN>>
\* the "no constraint" option of the authority and postal-code widgets
All == "All"
\* the "nothing selected" option of the save selectbox
NoneName == <<"N", "o", "n", "e">>
NoError == "none"

isna(name) == name = NaNName

Row(nm, pcode, la) == [name |-> nm, postcode |-> pcode, local_authority |-> la]

SeqsUpTo(S, k) == UNION {[1..m -> S] : m \in 0..k}

Min(a, b) == IF a <= b THEN a ELSE b

----------------------------------------------------------------------------
(* Python's str operations, on sequences of characters. *)

isspace(c) == c = " "

lower_char(c) == IF c = "A" THEN "a" ELSE IF c = "B" THEN "b" ELSE c

\* str.strip(): drop the leading and the trailing whitespace
RECURSIVE lstrip(_)
lstrip(s) == IF s # <<>> /\ isspace(Head(s)) THEN lstrip(Tail(s)) ELSE s

RECURSIVE rstrip(_)
rstrip(s) ==
    IF s # <<>> /\ isspace(s[Len(s)]) THEN rstrip(SubSeq(s, 1, Len(s) - 1)) ELSE s

strip(s) == rstrip(lstrip(s))

\* re.compile(pat): an opening parenthesis that nothing closes is an error
re_compiles(pat) == \A i \in 1..Len(pat) : pat[i] # "("

\* one pattern character against one character, under re.IGNORECASE:
\* "." matches any character, every other character matches itself
re_char_matches(p, c) == p = "." \/ lower_char(p) = lower_char(c)

\* re.search(pat, s, re.IGNORECASE) finds a match
re_search(pat, s) ==
    \E i \in 1..(Len(s) + 1) :
        /\ i + Len(pat) - 1 <= Len(s)
        /\ \A k \in 1..Len(pat) : re_char_matches(pat[k], s[i + k - 1])

\* Series.str.contains(pat, case=False, na=False) for one cell (regex=True is
\* the default): a missing name gives na, which is False
str_contains(name, pat) == IF isna(name) THEN FALSE ELSE re_search(pat, name)

----------------------------------------------------------------------------
(* apply_filters *)

\* the authority filter written as one lookup per listed authority, the matches
\* concatenated: the rows come out grouped by authority
region_filter_concat(rows, auths) ==
    IF auths # {} /\ All \notin auths
    THEN (IF "Soho" \in auths
          THEN SelectSeq(rows, LAMBDA r : r.local_authority = "Soho") ELSE <<>>)
         \o (IF "Camden" \in auths
             THEN SelectSeq(rows, LAMBDA r : r.local_authority = "Camden") ELSE <<>>)
    ELSE rows

\* the authority filter without the test for "All"
region_filter_no_all(rows, auths) ==
    IF auths # {}
    THEN SelectSeq(rows, LAMBDA r : r.local_authority \in auths)
    ELSE rows

\* lines 48-49: the authority filter
region_filter(rows, auths) ==
    IF auths # {} /\ All \notin auths
    THEN SelectSeq(rows, LAMBDA r : r.local_authority \in auths)
    ELSE rows

\* the .str accessor exists on a column of object dtype only: a column read
\* with no text in it is float64
has_str_accessor(frame) == frame = <<>> \/ \E i \in 1..Len(frame) : ~isna(frame[i].name)

\* the name filter without line 50's test: the mask is always applied
name_filter_unguarded(frame, rows, query) ==
    [error |-> NoError,
     rows  |-> SelectSeq(rows, LAMBDA r : str_contains(r.name, strip(query)))]

\* lines 50-52: the name filter; the result is the exception or the rows
name_filter(frame, rows, query) ==
    IF query # <<>>
    THEN LET trimmed_query == strip(query)
         IN  IF ~has_str_accessor(frame)
             THEN [error |-> "AttributeError", rows |-> <<>>]
             ELSE IF ~re_compiles(trimmed_query)
             THEN [error |-> "re.error", rows |-> <<>>]
             ELSE [error |-> NoError,
                   rows  |-> SelectSeq(rows, LAMBDA r : str_contains(r.name, trimmed_query))]
    ELSE [error |-> NoError, rows |-> rows]

\* lines 53-54: the postal-code filter
postcode_filter(rows, pcode) ==
    IF pcode # All
    THEN SelectSeq(rows, LAMBDA r : r.postcode = pcode)
    ELSE rows

\* lines 35-55
apply_filters(frame, auths, query, pcode) ==
    LET by_region == region_filter(frame, auths)
        by_name   == name_filter(frame, by_region, query)
    IN  IF by_name.error # NoError
        THEN by_name
        ELSE [error |-> NoError, rows |-> postcode_filter(by_name.rows, pcode)]

----------------------------------------------------------------------------
(* The filter engine on its own: any frame, any criteria. *)

FilterRows ==
    { Row(<<"A", "b">>, "N1", "Camden"),
      Row(<<"b">>, "N1", "Camden"),
      Row(<<"b", "a">>, "W1", "Soho"),
      Row(NaNName, "W1", "Soho"),
      Row(<<"a">>, NaN, NaN) }

QueryChars == {"a", "A", " ", ".", "("}

Queries == SeqsUpTo(QueryChars, MaxQueryLen)

AuthorityChoices == SUBSET {All, "Camden", "Soho"}

PostalChoices == {All, "N1", "W1"}

Idle ==
    /\ chart_data = <<>>
    /\ top_cities = <<>>
    /\ n = TopN
    /\ sorted_data = <<>>
    /\ error = NoError
    /\ page = "Home"
    /\ pub_name = NoneName
    /\ session_state = <<>>
    /\ save_log = <<>>

InitFilter ==
    /\ data \in SeqsUpTo(FilterRows, MaxRows)
    /\ authorities \in AuthorityChoices
    /\ name_query \in Queries
    /\ postal_code \in PostalChoices
    /\ filtered_data = <<>>
    /\ pc = "start"
    /\ Idle

\* line 144
ApplyFilters ==
    /\ pc = "start"
    /\ LET res == apply_filters(data, authorities, name_query, postal_code)
       IN  /\ error' = res.error
           /\ filtered_data' = res.rows
    /\ pc' = "filtered"
    /\ UNCHANGED <<data, authorities, name_query, postal_code, chart_data, top_cities,
                   n, sorted_data, page, pub_name, session_state, save_log>>

NextFilter == ApplyFilters

SpecFilter == InitFilter /\ [][NextFilter]_vars

----------------------------------------------------------------------------
(* Properties of the filter engine. *)

\* s can be obtained from t by deleting rows
RECURSIVE IsSubsequence(_, _)
IsSubsequence(s, t) ==
    IF s = <<>> THEN TRUE
    ELSE IF t = <<>> THEN FALSE
    ELSE IF Head(s) = Head(t) THEN IsSubsequence(Tail(s), Tail(t))
    ELSE IsSubsequence(s, Tail(t))

\* t occurs in s as a run of consecutive characters
IsSubstring(t, s) ==
    \E i \in 1..(Len(s) + 1) :
        /\ i + Len(t) - 1 <= Len(s)
        /\ \A k \in 1..Len(t) : s[i + k - 1] = t[k]

lower(s) == [i \in 1..Len(s) |-> lower_char(s[i])]

\* the row passes the code's name mask / postal-code mask
PassesNameMask(r) == name_filter(data, <<r>>, name_query).rows # <<>>
PassesPostcodeMask(r) == postcode_filter(<<r>>, postal_code) # <<>>
PassesRegionMask(r) == region_filter(<<r>>, authorities) # <<>>

\* C1: whatever the frame and the criteria, the frame apply_filters returns is
\* a subsequence of its input: rows of the input, unaltered, none repeated, in
\* the input's order.
C1_Subsequence ==
    (pc = "filtered" /\ error = NoError) => IsSubsequence(filtered_data, data)

C1_Witness ==
    /\ pc = "filtered" /\ error = NoError
    /\ authorities = {"Camden", "Soho"} /\ name_query # <<>> /\ postal_code # All
    /\ Len(data) = 3 /\ Len(filtered_data) = 2
    /\ filtered_data = <<data[1], data[3]>>

\* C2: with no authority selected, an empty name query and the postal code
\* "All", apply_filters returns its input as it is and raises nothing.
C2_Unconstrained ==
    (pc = "filtered" /\ authorities = {} /\ name_query = <<>> /\ postal_code = All)
        => (error = NoError /\ filtered_data = data)

C2_Witness ==
    /\ pc = "filtered" /\ authorities = {} /\ name_query = <<>> /\ postal_code = All
    /\ Len(filtered_data) = 2
    /\ isna(filtered_data[1].name)
    /\ filtered_data[2].postcode = NaN /\ filtered_data[2].local_authority = NaN

\* the name predicate as the specification words it: trim the query; a
\* non-empty trimmed query keeps the rows whose name is present and holds it
\* as a substring, letter case ignored; an empty one keeps every row
NamePredicateAsSpecified(r) ==
    LET trimmed == strip(name_query)
    IN  IF trimmed # <<>>
        THEN ~isna(r.name) /\ IsSubstring(lower(trimmed), lower(r.name))
        ELSE TRUE

\* C3: the name filter trims the query and then keeps, for a non-empty trimmed
\* query, exactly the rows whose name contains it as a case-insensitive
\* substring (a missing name is dropped, without error), and for an empty
\* trimmed query (a query of whitespace included) every row.
C3_NameFilter ==
    pc = "filtered" =>
        /\ error = NoError
        /\ filtered_data =
              SelectSeq(data, LAMBDA r : /\ PassesRegionMask(r)
                                         /\ NamePredicateAsSpecified(r)
                                         /\ PassesPostcodeMask(r))

\* C4: a row passes the region predicate iff no authority is selected, or
\* "All" is among the selected ones, or the row's authority is selected; the
\* rows returned are those that pass it and the other two masks.
C4_RegionFilter ==
    (pc = "filtered" /\ error = NoError) =>
        /\ filtered_data =
              SelectSeq(data, LAMBDA r : /\ \/ authorities = {}
                                            \/ All \in authorities
                                            \/ r.local_authority \in authorities
                                         /\ PassesNameMask(r)
                                         /\ PassesPostcodeMask(r))
        /\ (authorities # {} /\ All \notin authorities) =>
              \A i \in 1..Len(filtered_data) :
                  filtered_data[i].local_authority \in authorities

C4_Witness ==
    /\ pc = "filtered" /\ error = NoError
    /\ authorities = {All, "Soho"}
    /\ Len(filtered_data) = 2
    /\ filtered_data[1].local_authority = "Camden"
    /\ filtered_data[2].local_authority = NaN

----------------------------------------------------------------------------
(* pandas' sorting and counting. *)

\* numpy's argsort(kind="quicksort"), the default of sort_values: the order it
\* leaves equal keys in is not defined, so every permutation that puts the
\* keys in ascending order is an outcome.  (numpy sorts a run of at most 16
\* elements by insertion, which keeps equal keys in place, and partitions a
\* longer one, which does not; the short frames of the model stand for the
\* frames of any length the program sorts.)
argsort_quicksort(keys) ==
    { p \in Permutations(1..Len(keys)) :
        \A i, j \in 1..Len(keys) : i < j => keys[p[i]] <= keys[p[j]] }

\* numpy's argsort(kind="mergesort"): equal keys keep their order
argsort_mergesort(keys) ==
    CHOOSE p \in Permutations(1..Len(keys)) :
        \A i, j \in 1..Len(keys) :
            i < j => \/ keys[p[i]] < keys[p[j]]
                     \/ keys[p[i]] = keys[p[j]] /\ p[i] < p[j]

\* the rows of s in the order p
take(s, p) == [i \in 1..Len(s) |-> s[p[i]]]

negated(keys) == [i \in 1..Len(keys) |-> 0 - keys[i]]

\* the values of a column in the order of their first occurrence
RECURSIVE unique(_)
unique(col) ==
    IF col = <<>> THEN <<>>
    ELSE LET before == unique(SubSeq(col, 1, Len(col) - 1))
             last   == col[Len(col)]
         IN  IF \E i \in 1..Len(before) : before[i] = last
             THEN before
             ELSE Append(before, last)

\* Series.dropna()
dropna(col) == SelectSeq(col, LAMBDA v : v # NaN)

\* data['local_authority']
authority_column(frame) == [i \in 1..Len(frame) |-> frame[i].local_authority]

count_of(col, v) == Cardinality({i \in 1..Len(col) : col[i] = v})

counts_of(series) == [i \in 1..Len(series) |-> series[i].count]

\* value_counts(dropna=False): the missing cells are a group of their own
value_counts_keep_na(col) ==
    LET keys   == unique(col)
        groups == [i \in 1..Len(keys) |->
                     [local_authority |-> keys[i], count |-> count_of(col, keys[i])]]
    IN  { take(groups, p) : p \in argsort_quicksort(negated(counts_of(groups))) }

\* Series.value_counts().reset_index(): one row per value present, missing
\* cells dropped, sorted by count, largest first (sort_values, so the order
\* of equal counts is not defined); the set of its outcomes
value_counts(col) ==
    LET keys   == unique(dropna(col))
        groups == [i \in 1..Len(keys) |->
                     [local_authority |-> keys[i], count |-> count_of(col, keys[i])]]
    IN  { take(groups, p) : p \in argsort_quicksort(negated(counts_of(groups))) }

\* Series.nsmallest(k)
nsmallest(series, k) ==
    IF k >= Len(series)
    THEN { take(series, p) : p \in argsort_quicksort(counts_of(series)) }
    ELSE { SubSeq(take(series, argsort_mergesort(counts_of(series))), 1, k) }

\* Series.nlargest(k), keep="first": with k at least the length it is
\* sort_values(ascending=False).head(k), otherwise the k largest, equal
\* counts in the order they have in the series; the set of its outcomes
nlargest(series, k) ==
    IF k >= Len(series)
    THEN { take(series, p) : p \in argsort_quicksort(negated(counts_of(series))) }
    ELSE { SubSeq(take(series, argsort_mergesort(negated(counts_of(series)))), 1, k) }

----------------------------------------------------------------------------
(* The two bar charts. *)

\* lines 96-103: the rows handed to px.bar; no chart for an empty frame
display_bar_chart(frame) ==
    IF frame # <<>> THEN value_counts(authority_column(frame)) ELSE {<<>>}

\* lines 106-116, with the 10 of line 109 as k
display_top_cities(frame, k) ==
    IF frame # <<>>
    THEN UNION { nlargest(series, k) : series \in value_counts(authority_column(frame)) }
    ELSE {<<>>}

AggRows ==
    { Row(<<"a">>, "N1", "Camden"),
      Row(<<"a">>, "N1", "Soho"),
      Row(<<"a">>, "N1", "Leeds"),
      Row(<<"a">>, "N1", NaN) }

\* the n of top_n: the 10 of the code, and two that cut a small frame short
NChoices == {1, 2, TopN}

InitAgg ==
    /\ data \in SeqsUpTo(AggRows, MaxRows)
    /\ authorities = {}
    /\ name_query = <<>>
    /\ postal_code = All
    /\ filtered_data = data
    /\ pc = "filtered"
    /\ Idle

\* line 154
DisplayBarChart ==
    /\ pc = "filtered"
    /\ chart_data' \in display_bar_chart(filtered_data)
    /\ pc' = "charted"
    /\ UNCHANGED <<data, authorities, name_query, postal_code, filtered_data, top_cities,
                   n, sorted_data, error, page, pub_name, session_state, save_log>>

\* line 155: the chart of the whole store
DisplayTopCities ==
    /\ pc = "charted"
    /\ \E k \in NChoices :
          /\ n' = k
          /\ top_cities' \in display_top_cities(data, k)
    /\ pc' = "top"
    /\ UNCHANGED <<data, authorities, name_query, postal_code, filtered_data, chart_data,
                   sorted_data, error, page, pub_name, session_state, save_log>>

NextAgg == DisplayBarChart \/ DisplayTopCities

SpecAgg == InitAgg /\ [][NextAgg]_vars

----------------------------------------------------------------------------
(* Properties of the aggregations. *)

RECURSIVE SumCounts(_)
SumCounts(series) ==
    IF series = <<>> THEN 0 ELSE Head(series).count + SumCounts(Tail(series))

NoAuthorityTwice(series) ==
    \A i, j \in 1..Len(series) :
        series[i].local_authority = series[j].local_authority => i = j

\* the authorities present in a frame
AuthoritiesOf(frame) ==
    {frame[i].local_authority : i \in 1..Len(frame)} \ {NaN}

RowsOf(frame, la) == Cardinality({i \in 1..Len(frame) : frame[i].local_authority = la})

Returned(series) == {series[i].local_authority : i \in 1..Len(series)}

\* C5 as stated: for a non-empty frame the bar chart's counts hold every
\* authority at most once and sum to the number of rows of the frame.
C5_CountsSumToLen ==
    (pc = "charted" /\ filtered_data # <<>>) =>
        /\ NoAuthorityTwice(chart_data)
        /\ SumCounts(chart_data) = Len(filtered_data)

\* C5 amended: for a non-empty frame the bar chart's counts hold every
\* authority present at most once, each with the number of its rows, and sum
\* to the number of rows whose authority is present; a row whose authority is
\* missing is counted in no group.
C5_CountsSumToPresent ==
    (pc = "charted" /\ filtered_data # <<>>) =>
        /\ NoAuthorityTwice(chart_data)
        /\ Returned(chart_data) = AuthoritiesOf(filtered_data)
        /\ \A i \in 1..Len(chart_data) :
              chart_data[i].count = RowsOf(filtered_data, chart_data[i].local_authority)
        /\ SumCounts(chart_data) = Len(dropna(authority_column(filtered_data)))

C5_Witness ==
    /\ pc = "charted"
    /\ Len(filtered_data) = 3
    /\ filtered_data[2].local_authority = NaN
    /\ Len(chart_data) = 1
    /\ chart_data[1].count = 2

\* C6: top_n returns at most min(n, number of distinct authorities) rows, each
\* with the true count of its authority, and every authority returned has at
\* least the count of every authority left out; an empty frame gives no row
\* and no error.
C6_TopN ==
    pc = "top" =>
        /\ error = NoError
        /\ Len(top_cities) <= Min(n, Cardinality(AuthoritiesOf(data)))
        /\ \A i \in 1..Len(top_cities) :
              /\ top_cities[i].local_authority \in AuthoritiesOf(data)
              /\ top_cities[i].count = RowsOf(data, top_cities[i].local_authority)
              /\ \A la \in AuthoritiesOf(data) \ Returned(top_cities) :
                    top_cities[i].count >= RowsOf(data, la)
        /\ (data = <<>> => top_cities = <<>>)

C6_Witness ==
    /\ pc = "top" /\ n = 1
    /\ Len(data) = 3
    /\ Cardinality(AuthoritiesOf(data)) = 2
    /\ Len(top_cities) = 1
    /\ top_cities[1].count = 2

----------------------------------------------------------------------------
(* The listing sorted by name length. *)

\* len(name); the caller has checked that the name is present
name_length_of(r) == Len(r.name)

\* data['name_length'] = ...: the frame with the new column
with_name_length(frame) ==
    [i \in 1..Len(frame) |-> frame[i] @@ [name_length |-> name_length_of(frame[i])]]

name_lengths(frame) == [i \in 1..Len(frame) |-> frame[i].name_length]

\* sorted_data[['name', 'address', 'postcode', 'local_authority']]
shown_columns(frame) ==
    [i \in 1..Len(frame) |->
        Row(frame[i].name, frame[i].postcode, frame[i].local_authority)]

\* sort_values(by='name_length', ascending=False)
sort_values_descending(frame) ==
    { take(frame, p) : p \in argsort_quicksort(negated(name_lengths(frame))) }

\* line 124: sort_values(by='name_length', ascending=True), kind "quicksort"
\* by default; the set of its outcomes
sort_values(frame) ==
    { take(frame, p) : p \in argsort_quicksort(name_lengths(frame)) }

\* lines 119-128: the outcomes, each the exception, the argument as the call
\* leaves it and the frame shown
display_sorted_pubs(frame) ==
    IF frame # <<>>
    THEN IF \E i \in 1..Len(frame) : isna(frame[i].name)
         THEN \* len(NaN): apply raises before the column is assigned
              { [error |-> "TypeError", frame |-> frame, shown |-> <<>>] }
         ELSE { [error |-> NoError,
                 frame |-> with_name_length(frame),
                 shown |-> shown_columns(sorted)] :
                    sorted \in sort_values(with_name_length(frame)) }
    ELSE { [error |-> NoError, frame |-> frame, shown |-> <<>>] }

SortRows ==
    { Row(<<"b">>, "N1", "Camden"),
      Row(<<"a">>, "N1", "Camden"),
      Row(<<"A", "b">>, "N1", "Camden"),
      Row(<<"b", "a">>, "N1", "Camden"),
      Row(NaNName, "N1", "Camden") }

InitSort ==
    /\ data \in SeqsUpTo(SortRows, MaxRows)
    /\ authorities = {}
    /\ name_query = <<>>
    /\ postal_code = All
    /\ filtered_data = data
    /\ pc = "filtered"
    /\ Idle

\* line 156
DisplaySortedPubs ==
    /\ pc = "filtered"
    /\ \E out \in display_sorted_pubs(filtered_data) :
          /\ error' = out.error
          /\ filtered_data' = out.frame
          /\ sorted_data' = out.shown
    /\ pc' = "sorted"
    /\ UNCHANGED <<data, authorities, name_query, postal_code, chart_data, top_cities,
                   n, page, pub_name, session_state, save_log>>

NextSort == DisplaySortedPubs

SpecSort == InitSort /\ [][NextSort]_vars

----------------------------------------------------------------------------
(* Properties of the sorted listing.  In SpecSort the frame handed to        *)
(* display_sorted_pubs is a copy of data, so data is the input as it was.   *)

Ascending(frame) ==
    \A i, j \in 1..Len(frame) : i < j => Len(frame[i].name) <= Len(frame[j].name)

\* the permutations of the input's positions that give the output
Rearrangements(out, in) ==
    IF Len(out) # Len(in) THEN {}
    ELSE { p \in Permutations(1..Len(in)) : take(in, p) = out }

\* C7 as stated: the listing is a permutation of the input in ascending order
\* of name length, rows of equal name length in the order of the input.
C7_StableSort ==
    (pc = "sorted" /\ error = NoError) =>
        /\ Ascending(sorted_data)
        /\ \E p \in Rearrangements(sorted_data, data) :
              \A i, j \in 1..Len(data) :
                  (i < j /\ Len(data[p[i]].name) = Len(data[p[j]].name)) => p[i] < p[j]

\* C7 amended: when every name is present the listing is a permutation of the
\* input in ascending order of name length; the order of rows of equal name
\* length is not fixed.
C7_SortedPermutation ==
    (pc = "sorted" /\ error = NoError) =>
        /\ Ascending(sorted_data)
        /\ Rearrangements(sorted_data, data) # {}

C7_Witness ==
    /\ pc = "sorted" /\ error = NoError
    /\ Len(data) = 3
    /\ Len(data[1].name) = 2 /\ Len(data[2].name) = 1 /\ Len(data[3].name) = 2
    /\ data[1] # data[3]
    /\ sorted_data = <<data[2], data[3], data[1]>>

\* C8: the call of display_sorted_pubs leaves the frame it is given, and the
\* Record Store, as they were: no name_length column stays on the input.
C8_InputUnchanged ==
    [][pc' = "sorted" => (filtered_data' = filtered_data /\ data' = data)]_vars

----------------------------------------------------------------------------
(* The session: main is run once when the session starts and again, from    *)
(* its first line, after every interaction, with the widgets' new values.   *)

Home == "Home"
SavedPubs == "Saved Pubs"

\* the list a session holds; none before the Saved Pubs page was first shown
saved(state) == IF "saved_pubs" \in DOMAIN state THEN state.saved_pubs ELSE <<>>

\* line 137: the multiselect's options
authority_options(frame) == {All} \cup {frame[i].local_authority : i \in 1..Len(frame)}

\* line 139: the postal-code selectbox's options
postal_code_options(frame) ==
    {All} \cup ({frame[i].postcode : i \in 1..Len(frame)} \ {NaN})

\* line 162: the save selectbox's options
pub_options(frame) == {NoneName} \cup {frame[i].name : i \in 1..Len(frame)}

\* the initialisation without the test of line 160: a fresh list on every run
ensure_saved_pubs_always(state) == [saved_pubs |-> <<>>]

\* lines 160-161
ensure_saved_pubs(state) ==
    IF "saved_pubs" \notin DOMAIN state THEN [saved_pubs |-> <<>>] ELSE state

\* the save that skips a name already saved
save_pub_once(state, pub, clicked) ==
    IF clicked /\ pub # NoneName /\ \A i \in 1..Len(state.saved_pubs) : state.saved_pubs[i] # pub
    THEN [state EXCEPT !.saved_pubs = Append(@, pub)]
    ELSE state

\* lines 163-164
save_pub(state, pub, clicked) ==
    IF clicked /\ pub # NoneName
    THEN [state EXCEPT !.saved_pubs = Append(@, pub)]
    ELSE state

\* lines 131-169: one run of main with the widgets' values; selected is what
\* the save selectbox held, clicked whether "Save Pub" was pressed.  The set
\* of outcomes: what the run leaves in the variables of the model.
main(store, state, pg, auths, query, pcode, selected, clicked) ==
    LET res == apply_filters(store, auths, query, pcode)
    IN  IF res.error # NoError
        THEN { [error |-> res.error, filtered |-> <<>>, chart |-> <<>>, top |-> <<>>,
                shown |-> <<>>, pub |-> NoneName, state |-> state] }
        ELSE IF pg = Home
        THEN { [error |-> s.error, filtered |-> s.frame, chart |-> c, top |-> t,
                shown |-> s.shown, pub |-> NoneName, state |-> state] :
                    c \in display_bar_chart(res.rows),
                    t \in display_top_cities(store, TopN),
                    s \in display_sorted_pubs(res.rows) }
        ELSE LET pub == IF selected \in pub_options(res.rows) THEN selected ELSE NoneName
             IN  { [error |-> NoError, filtered |-> res.rows, chart |-> <<>>, top |-> <<>>,
                    shown |-> <<>>, pub |-> pub,
                    state |-> save_pub(ensure_saved_pubs(state), pub, clicked)] }

SessionStores ==
    { << Row(<<"b">>, "N1", "Camden"), Row(<<"A", "b">>, "W1", "Soho") >>,
      << Row(<<"b">>, "N1", "Camden"), Row(NoneName, "W1", "Soho") >>,
      << Row(<<"b">>, "N1", "Camden"), Row(NaNName, "W1", "Soho") >> }

SessionQueries == {<<>>, <<"b">>, <<"(">>}

Init ==
    /\ data \in SessionStores
    /\ authorities = {}
    /\ name_query = <<>>
    /\ postal_code = All
    /\ filtered_data = <<>>
    /\ pc = "new"
    /\ Idle

\* one run of main and what it leaves behind
Run(pg, auths, query, pcode, selected, clicked) ==
    /\ \E out \in main(data, session_state, pg, auths, query, pcode, selected, clicked) :
          /\ error' = out.error
          /\ filtered_data' = out.filtered
          /\ chart_data' = out.chart
          /\ top_cities' = out.top
          /\ sorted_data' = out.shown
          /\ pub_name' = out.pub
          /\ session_state' = out.state
    /\ page' = pg
    /\ authorities' = auths
    /\ name_query' = query
    /\ postal_code' = pcode
    /\ n' = TopN
    /\ data' = data

\* the run that opens the session: every widget at its default
Load ==
    /\ pc = "new"
    /\ Run(Home, {}, <<>>, All, NoneName, FALSE)
    /\ pc' = "loaded"
    /\ save_log' = save_log

\* line 141
ChangeAuthorities ==
    /\ pc # "new"
    /\ \E auths \in (SUBSET authority_options(data)) \ {authorities} :
          Run(page, auths, name_query, postal_code, pub_name, FALSE)
    /\ pc' = "filter"
    /\ save_log' = save_log

\* line 138
ChangeNameQuery ==
    /\ pc # "new"
    /\ \E query \in SessionQueries \ {name_query} :
          Run(page, authorities, query, postal_code, pub_name, FALSE)
    /\ pc' = "filter"
    /\ save_log' = save_log

\* line 142
ChangePostalCode ==
    /\ pc # "new"
    /\ \E pcode \in postal_code_options(data) \ {postal_code} :
          Run(page, authorities, name_query, pcode, pub_name, FALSE)
    /\ pc' = "filter"
    /\ save_log' = save_log

\* line 134
SwitchPage ==
    /\ pc # "new"
    /\ \E pg \in {Home, SavedPubs} \ {page} :
          Run(pg, authorities, name_query, postal_code, pub_name, FALSE)
    /\ pc' = "navigate"
    /\ save_log' = save_log

\* line 162: another option of the save selectbox is chosen
SelectPub ==
    /\ pc # "new" /\ page = SavedPubs /\ error = NoError
    /\ \E selected \in pub_options(filtered_data) \ {pub_name} :
          Run(page, authorities, name_query, postal_code, selected, FALSE)
    /\ pc' = "select"
    /\ save_log' = save_log

\* line 163: "Save Pub" is pressed
PressSave ==
    /\ pc # "new" /\ page = SavedPubs /\ error = NoError
    /\ Len(save_log) < MaxSaves
    /\ Run(page, authorities, name_query, postal_code, pub_name, TRUE)
    /\ pc' = "save"
    /\ save_log' = Append(save_log, pub_name)

Next ==
    \/ Load
    \/ ChangeAuthorities
    \/ ChangeNameQuery
    \/ ChangePostalCode
    \/ SwitchPage
    \/ SelectPub
    \/ PressSave

Spec == Init /\ [][Next]_vars

----------------------------------------------------------------------------
(* Properties of the saved list. *)

IsPrefix(s, t) == Len(s) <= Len(t) /\ SubSeq(t, 1, Len(s)) = s

NamesOf(frame) == {frame[i].name : i \in 1..Len(frame)}

\* C9: the saved list is the sequence of the candidates of the presses of
\* "Save Pub" so far that were not "None", in the order of the presses,
\* repetitions kept.
C9_SavedIsLogOfSaves ==
    saved(session_state) = SelectSeq(save_log, LAMBDA c : c # NoneName)

C9_Witness ==
    /\ Len(save_log) = 3
    /\ save_log[1] = <<"b">> /\ save_log[2] = NoneName /\ save_log[3] = <<"b">>
    /\ saved(session_state) = << <<"b">>, <<"b">> >>

\* C10: a step changes the saved list only if it is a press of "Save Pub"
\* with a candidate other than "None", and then it appends that candidate;
\* every other step leaves the list as it was, so the list only grows at its
\* end and, once non-empty, stays non-empty.
C10_OnlySaveAppends ==
    [][ /\ IsPrefix(saved(session_state), saved(session_state'))
        /\ saved(session_state') # saved(session_state) =>
              /\ pc' = "save"
              /\ pub_name # NoneName
              /\ saved(session_state') = Append(saved(session_state), pub_name)
        /\ saved(session_state) # <<>> => saved(session_state') # <<>> ]_vars

\* a saved name whose row the filters have since excluded
C10_Witness ==
    /\ pc = "filter" /\ error = NoError /\ page = SavedPubs
    /\ saved(session_state) = << <<"b">> >>
    /\ <<"b">> \notin NamesOf(filtered_data)

====
